---------------------------- MODULE Spec2Model ----------------------------
(***************************************************************************)
(* Model of the wine-maceration driver (src/maceration-driver.py): the     *)
(* polling control loop WineMacerator.run with its three timed events      *)
(* (temperature update, relay duty cycle, one-second display refresh),     *)
(* the run deadline, and the process boundary in __main__.                 *)
(*                                                                         *)
(* Time is discrete.  One tick is 1/TicksPerSecond of a second; `now` is   *)
(* what datetime.now() returns.  The clock moves where the code blocks:    *)
(* in the sensor read, in time.sleep, and between the two clock reads at   *)
(* the top of the loop.  The program's durations are scaled down to a few  *)
(* ticks each so that whole duty cycles fit inside a run; their order      *)
(* (second < relay duration < temperature interval < mixture interval <    *)
(* maceration duration) is the program's.                                  *)
(*                                                                         *)
(* The timer-callback variant (src/maceration-driver-raspberry-pico.py) is *)
(* modelled next to it, on variables of its own: its two periodic timer    *)
(* callbacks and its main loop.  A run is of one variant: the other        *)
(* variant's variables keep their initial values.                          *)
(***************************************************************************)
EXTENDS Integers, Sequences, FiniteSets, TLC

VARIABLES
    now,                    \* datetime.now(), in ticks
    pc,                     \* position of the process in __main__ / run
    current_time,           \* the local snapshot of run (line 155); 0 until assigned
    relay_value,            \* self.relay.value: 1 after on(), 0 after off()
    relay_end_time,         \* self.relay_end_time: None, or Some(time)
    next_temp_update,       \* self.next_temp_update
    next_relay_activation,  \* self.next_relay_activation
    next_second_update,     \* self.next_second_update
    end_maceration_time,    \* self.end_maceration_time
    lcd,                    \* what the LCD shows
    iot_log,                \* telemetry calls made, in order, with their outcome
    remaining,              \* argument of display_time_on_lcd, in ticks; 0 until assigned
    next_event_time,        \* local of run (line 169); 0 until assigned
    sleep_arg,              \* argument of the last time.sleep (line 170), in ticks
    iter,                   \* 0 before the loop, 1 in its first iteration, 2 in later ones
    fired,                  \* actions executed in the current iteration
    tempStartedAt,          \* clock when the last update_temperature started
    tempLatency,            \* how long the last sensor read took
    tempOutcome,            \* how the last update_temperature ended
    lastRelayEvent,         \* the most recent relay.on()/relay.off() call
    prevRelayEvent,         \* the one before it
    relay_at_deadline,      \* relay.value when the while test failed
    due,                    \* events whose deadline was at or before the snapshot
    config,                 \* what config.json holds
    components,             \* whether initialize_components has run
    \* the timer-callback variant
    main_pc,                \* position of its main loop ("off": variant not running)
    relay_active,           \* global relay_active
    relay_pin,              \* level of relay_pin
    relay_next_activation_s, \* global relay_next_activation, a countdown in seconds
    current_temperature,    \* global current_temperature
    clock_hms,              \* globals hours, minutes, seconds
    day,                    \* global day
    days_elapsed,           \* global days_elapsed
    rtc_day,                \* the day the RTC reports
    display,                \* what the OLED shows
    display_ticks,          \* display_timer callbacks run so far
    measure_ticks,          \* temp_measure_timer callbacks run so far
    run_ticks,              \* display ticks since the relay last toggled
    ended_run               \* the relay run that ended last: its state and length

startupVars == <<config, components>>

picoVars == <<main_pc, relay_active, relay_pin, relay_next_activation_s,
              current_temperature, clock_hms, day, days_elapsed, rtc_day, display,
              display_ticks, measure_ticks, run_ticks, ended_run>>

loopVars == <<now, pc, current_time, relay_value, relay_end_time, next_temp_update,
              next_relay_activation, next_second_update, end_maceration_time, lcd,
              iot_log, remaining, next_event_time, sleep_arg, iter, fired,
              tempStartedAt, tempLatency, tempOutcome, lastRelayEvent,
              prevRelayEvent, relay_at_deadline, due>>

vars == <<loopVars, startupVars, picoVars>>

\* Python's None, for a field that holds either None or a time: None is the
\* empty tuple and a time t is <<t>>, so reading the time of a None field is
\* an evaluation error, as the comparison or subtraction is in Python
None == << >>

Some(t) == <<t>>

TimeOf(field) == field[1]

-----------------------------------------------------------------------------
(* Bounds.  Durations are in ticks.                                        *)

TicksPerSecond == 2             \* clock resolution: ticks in one second
RELAY_DURATION == 3             \* timedelta(minutes=RELAY_DURATION_MINUTES), scaled
TEMP_UPDATE_INTERVAL == 5       \* timedelta(minutes=TEMP_UPDATE_INTERVAL_MINUTES), scaled
MIXTURE_INTERVAL == 7           \* timedelta(hours=MIXTURE_INTERVAL_HOURS), scaled
MACERATION_DURATION == 24       \* timedelta(days=MACERATION_DURATION_DAYS), scaled
MaxLatency == 2                 \* longest sensor read
MaxOversleep == 2               \* longest overshoot of time.sleep
MaxJitter == 1                  \* longest gap between the clock reads of lines 154 and 155
MaxRemainingSeconds == 3726     \* largest countdown given to the formatter
MaxOverdueSeconds == 61         \* largest overdue (negative) countdown given to it

RELAY_DURATION_S == 3           \* RELAY_DURATION_MINUTES * 60 of the timer variant, scaled
MIXTURE_INTERVAL_S == 4         \* MIXTURE_INTERVAL_HOURS * 3600 of the timer variant, scaled
MaxDisplayTicks == 16           \* display_timer callbacks in a run
MaxMeasureTicks == 2            \* temp_measure_timer callbacks in a run
MaxRtcDays == 3                 \* midnights the RTC passes in a run

SECOND == TicksPerSecond        \* timedelta(seconds=1)
PICO_MACERATION_DURATION_DAYS == 1
Temperatures == {18}        \* values the sensor may return
LCD_COLS == 16

-----------------------------------------------------------------------------
(* Python arithmetic and string formatting used by display_time_on_lcd.   *)

Min2(a, b) == IF a <= b THEN a ELSE b

Max2(a, b) == IF a >= b THEN a ELSE b

\* int(x / d) on the float x = t / TicksPerSecond: truncation toward zero
IntOfQuotient(t, d) ==
    IF t >= 0 THEN t \div (d * TicksPerSecond)
              ELSE -((-t) \div (d * TicksPerSecond))

\* x % m on the float x = t / TicksPerSecond, in ticks: Python's result has
\* the sign of the (positive) modulus
FloatMod(t, m) == t % (m * TicksPerSecond)

\* int(y) of a non-negative float y given in ticks
IntOfSeconds(t) == t \div TicksPerSecond

\* f'{n}' of an int
FmtInt(n) == IF n < 0 THEN "-" \o ToString(-n) ELSE ToString(n)

Fmt02d_NoPad(n) == FmtInt(n)

\* f'{n:02d}' of an int
Fmt02d(n) == IF n >= 0 /\ n < 10 THEN "0" \o ToString(n) ELSE FmtInt(n)

RECURSIVE ljust(_, _)
\* str.ljust(width): pad with spaces on the right, never truncate
ljust(s, width) == IF Len(s) >= width THEN s ELSE ljust(s \o " ", width)

\* the string display_time_on_lcd writes; `t` is `remaining` in ticks
display_time_on_lcd(t, relay_on) ==
    IF relay_on = 1
    THEN ljust("Blend: " \o FmtInt(IntOfQuotient(t, 60)) \o ":"
                \o Fmt02d(IntOfSeconds(FloatMod(t, 60))), LCD_COLS)
    ELSE ljust("Next: " \o FmtInt(IntOfQuotient(t, 3600)) \o ":"
                \o Fmt02d(IntOfQuotient(FloatMod(t, 3600), 60)) \o ":"
                \o Fmt02d(IntOfSeconds(FloatMod(t, 60))), LCD_COLS)

-----------------------------------------------------------------------------
(* State after WineMacerator.__init__ (lines 79-98): the relay is off, the *)
(* three event deadlines are the start time, the run deadline is start +   *)
(* the maceration duration.                                                *)

NoEvent == [ev |-> "none", pre |-> 0, snap |-> 0, deadline |-> 0, at |-> 0]

\* the OLED after the start-up lines 17-21
Splash == [kind |-> "splash", temperature |-> "", label |-> "", countdown |-> "",
           clock |-> ""]

BlankLcd == [temperature |-> "", status |-> "", row1 |-> "", text |-> ""]

Ghosts0 ==
    /\ iter = 0
    /\ fired = {}
    /\ tempStartedAt = 0
    /\ tempLatency = 0
    /\ tempOutcome = "none"
    /\ lastRelayEvent = NoEvent
    /\ prevRelayEvent = NoEvent
    /\ relay_at_deadline = 0
    /\ due = {}

set_initial_times ==
    /\ relay_end_time = None
    /\ next_temp_update = now
    /\ next_relay_activation = now
    /\ next_second_update = now
    /\ end_maceration_time = now + MACERATION_DURATION

\* the globals of the timer-callback variant as its module sets them (lines
\* 27-42 and 143); `pos` is where its main loop stands, `t` the time of day
\* and `d` the day the RTC gave at line 27
PicoGlobals(pos, t, d) ==
    /\ main_pc = pos
    /\ relay_active = FALSE
    /\ relay_pin = 0
    /\ relay_next_activation_s = MIXTURE_INTERVAL_S
    /\ current_temperature = "Waiting for temp"
    /\ clock_hms = t
    /\ day = d
    /\ rtc_day = d
    /\ days_elapsed = 0
    /\ display = Splash
    /\ display_ticks = 0
    /\ measure_ticks = 0
    /\ run_ticks = 0
    /\ ended_run = [active |-> FALSE, len |-> 0, count |-> 0]

PicoOff == PicoGlobals("off", <<0, 0, 0>>, 1)

\* the polling variant when it is not the one running
LoopOff ==
    /\ now = 0
    /\ pc = "off"
    /\ current_time = 0
    /\ relay_value = 0
    /\ set_initial_times
    /\ lcd = BlankLcd
    /\ iot_log = << >>
    /\ remaining = 0
    /\ next_event_time = 0
    /\ sleep_arg = 0
    /\ Ghosts0

Init ==
    /\ config = "ok"
    /\ components = TRUE
    /\ PicoOff
    /\ now = 0
    /\ pc = "run"
    /\ current_time = 0
    /\ relay_value = 0
    /\ set_initial_times
    /\ lcd = BlankLcd
    /\ iot_log = << >>
    /\ remaining = 0
    /\ next_event_time = 0
    /\ sleep_arg = 0
    /\ Ghosts0

-----------------------------------------------------------------------------
(* update_temperature and what it calls (lines 100-120, 51-60).            *)

\* the clock value set_next_temp_update_time reads: it is called first,
\* before the sensor read takes `lat` ticks
TempScheduleClock_AfterRead(lat) == now + lat

TempScheduleClock(lat) == now

\* update_temperature.  lat: duration of the sensor read; outcome: "ok",
\* "sensor_error" (sensor.get_temperature raises) or "send_error"
\* (client.send_message raises and send_message re-raises); t: the value
\* read; conn: client.connected.  No call is wrapped in try/except, so an
\* exception leaves run() and reaches the handler in __main__.  Of row 0
\* the display keeps the temperature and the connection status; the
\* remaining-days field is left out.
update_temperature(lat, outcome, t, conn) ==
    /\ next_temp_update' = TempScheduleClock(lat) + TEMP_UPDATE_INTERVAL
    /\ now' = now + lat
    /\ tempStartedAt' = now
    /\ tempLatency' = lat
    /\ tempOutcome' = outcome
    /\ fired' = fired \cup {"temp"}
    /\ IF outcome = "sensor_error"
       THEN /\ pc' = "except"
            /\ UNCHANGED <<lcd, iot_log>>
       ELSE /\ lcd' = [lcd EXCEPT !.temperature = "T:" \o ToString(t),
                                  !.status = IF conn THEN "OK-A" ELSE "NO-A"]
            /\ iot_log' = Append(iot_log, [msg |-> "wine_temp", ok |-> outcome = "ok"])
            /\ pc' = IF outcome = "ok" THEN "relay" ELSE "except"

-----------------------------------------------------------------------------
(* Relay transitions (lines 122-139, 160-163).                             *)

DeactivateDue == relay_value = 1 /\ current_time >= TimeOf(relay_end_time)

ActivateDue_AnyState == current_time >= next_relay_activation

ActivateDue == relay_value = 0 /\ current_time >= next_relay_activation

\* datetime.now() as read by set_relay_end_time
RelayEndClock_Snapshot == current_time

RelayEndClock == now

RelayEvent(e, d) ==
    [ev |-> e, pre |-> relay_value, snap |-> current_time, deadline |-> d,
     at |-> now]

\* an activation that forgets set_relay_end_time
activate_relay_NoEndTime ==
    /\ relay_value' = 1
    /\ lcd' = [lcd EXCEPT !.row1 = ljust("Mieszanie: --:--", LCD_COLS)]
    /\ prevRelayEvent' = lastRelayEvent
    /\ lastRelayEvent' = RelayEvent("on", next_relay_activation)
    /\ fired' = fired \cup {"relay_on"}
    /\ UNCHANGED <<relay_end_time, next_relay_activation>>

activate_relay ==
    /\ relay_value' = 1
    /\ relay_end_time' = Some(RelayEndClock + RELAY_DURATION)
    /\ lcd' = [lcd EXCEPT !.row1 = ljust("Mieszanie: --:--", LCD_COLS)]
    /\ prevRelayEvent' = lastRelayEvent
    /\ lastRelayEvent' = RelayEvent("on", next_relay_activation)
    /\ fired' = fired \cup {"relay_on"}
    /\ UNCHANGED next_relay_activation

deactivate_relay ==
    /\ relay_value' = 0
    /\ next_relay_activation' = now + MIXTURE_INTERVAL
    /\ prevRelayEvent' = lastRelayEvent
    /\ lastRelayEvent' = RelayEvent("off", TimeOf(relay_end_time))
    /\ fired' = fired \cup {"relay_off"}
    /\ UNCHANGED <<relay_end_time, lcd>>

-----------------------------------------------------------------------------
(* Display refresh (lines 141-150).                                        *)

\* the relay deadline selected by relay.value (lines 143 and 169)
LiveRelayDeadline_AlwaysActivation == next_relay_activation

LiveRelayDeadline ==
    IF relay_value = 1 THEN TimeOf(relay_end_time) ELSE next_relay_activation

update_relay_timer ==
    /\ remaining' = LiveRelayDeadline - now
    /\ lcd' = [lcd EXCEPT !.row1 = display_time_on_lcd(remaining', relay_value)]
    /\ fired' = fired \cup {"display"}

-----------------------------------------------------------------------------
(* WineMacerator.run (lines 152-173), one action per statement of the      *)
(* loop, and the handler of __main__ (lines 180-187).                      *)

\* the events that are due at snapshot `t`: those whose live deadline is at
\* or before it (the comparisons of lines 157, 160, 162 and 165)
DueAt(t) ==
    (IF t >= next_temp_update THEN {"temp"} ELSE {})
    \cup (IF relay_value = 1 /\ t >= TimeOf(relay_end_time) THEN {"relay_off"} ELSE {})
    \cup (IF relay_value = 0 /\ t >= next_relay_activation THEN {"relay_on"} ELSE {})
    \cup (IF t >= next_second_update THEN {"display"} ELSE {})

\* line 153
RunStart ==
    /\ pc = "run"
    /\ \E conn \in BOOLEAN :
           lcd' = [lcd EXCEPT !.status = IF conn THEN "OK-A" ELSE "NO-A"]
    /\ pc' = "while"
    /\ UNCHANGED <<now, current_time, relay_value, relay_end_time, next_temp_update,
                   next_relay_activation, next_second_update, end_maceration_time,
                   iot_log, remaining, next_event_time, sleep_arg, iter, fired,
                   tempStartedAt, tempLatency, tempOutcome, lastRelayEvent,
                   prevRelayEvent, relay_at_deadline>>
    /\ UNCHANGED <<due, startupVars, picoVars>>

\* line 154: the loop condition reads the clock itself
WhileTest ==
    /\ pc = "while"
    /\ IF now < end_maceration_time
       THEN pc' = "snapshot" /\ UNCHANGED relay_at_deadline
       ELSE pc' = "finish" /\ relay_at_deadline' = relay_value
    /\ UNCHANGED <<now, current_time, relay_value, relay_end_time, next_temp_update,
                   next_relay_activation, next_second_update, end_maceration_time,
                   lcd, iot_log, remaining, next_event_time, sleep_arg, iter, fired,
                   tempStartedAt, tempLatency, tempOutcome, lastRelayEvent,
                   prevRelayEvent>>
    /\ UNCHANGED <<due, startupVars, picoVars>>

\* line 155: a second clock read, up to MaxJitter ticks after the first
Snapshot ==
    /\ pc = "snapshot"
    /\ \E j \in 0..MaxJitter : now' = now + j
    /\ current_time' = now'
    /\ iter' = Min2(iter + 1, 2)
    /\ fired' = {}
    /\ due' = DueAt(current_time')
    /\ pc' = "temp"
    /\ UNCHANGED <<relay_value, relay_end_time, next_temp_update,
                   next_relay_activation, next_second_update, end_maceration_time,
                   lcd, iot_log, remaining, next_event_time, sleep_arg,
                   tempStartedAt, tempLatency, tempOutcome, lastRelayEvent,
                   prevRelayEvent, relay_at_deadline>>
    /\ UNCHANGED <<startupVars, picoVars>>

\* lines 157-158
TempCheck ==
    /\ pc = "temp"
    /\ IF current_time >= next_temp_update
       THEN \E lat \in 0..MaxLatency, outcome \in {"ok", "sensor_error", "send_error"},
               t \in Temperatures, conn \in BOOLEAN :
                update_temperature(lat, outcome, t, conn)
       ELSE /\ pc' = "relay"
            /\ UNCHANGED <<now, next_temp_update, lcd, iot_log, fired,
                           tempStartedAt, tempLatency, tempOutcome>>
    /\ UNCHANGED <<current_time, relay_value, relay_end_time, next_relay_activation,
                   next_second_update, end_maceration_time, remaining,
                   next_event_time, sleep_arg, iter, lastRelayEvent, prevRelayEvent,
                   relay_at_deadline>>
    /\ UNCHANGED <<due, startupVars, picoVars>>

\* lines 160-163
RelayCheck ==
    /\ pc = "relay"
    /\ IF DeactivateDue THEN deactivate_relay
       ELSE IF ActivateDue THEN activate_relay
       ELSE UNCHANGED <<relay_value, relay_end_time, next_relay_activation, lcd,
                        fired, lastRelayEvent, prevRelayEvent>>
    /\ pc' = "display"
    /\ UNCHANGED <<now, current_time, next_temp_update, next_second_update,
                   end_maceration_time, iot_log, remaining, next_event_time,
                   sleep_arg, iter, tempStartedAt, tempLatency, tempOutcome,
                   relay_at_deadline>>
    /\ UNCHANGED <<due, startupVars, picoVars>>

\* lines 165-167
DisplayCheck ==
    /\ pc = "display"
    /\ IF current_time >= next_second_update
       THEN /\ update_relay_timer
            /\ next_second_update' = current_time + SECOND
       ELSE UNCHANGED <<remaining, lcd, fired, next_second_update>>
    /\ pc' = "sleep"
    /\ UNCHANGED <<now, current_time, relay_value, relay_end_time, next_temp_update,
                   next_relay_activation, end_maceration_time, iot_log,
                   next_event_time, sleep_arg, iter, tempStartedAt, tempLatency,
                   tempOutcome, lastRelayEvent, prevRelayEvent, relay_at_deadline>>
    /\ UNCHANGED <<due, startupVars, picoVars>>

\* a wake-up time that leaves the display tick out
NextEventTime_NoDisplayTick == Min2(next_temp_update, LiveRelayDeadline)

\* line 169
NextEventTime ==
    Min2(next_temp_update, Min2(next_second_update, LiveRelayDeadline))

\* lines 169-170: time.sleep blocks for at least its argument
Sleep ==
    /\ pc = "sleep"
    /\ next_event_time' = NextEventTime
    /\ sleep_arg' = Max2(0, next_event_time' - current_time)
    /\ \E over \in 0..MaxOversleep : now' = now + sleep_arg' + over
    /\ pc' = "while"
    /\ UNCHANGED <<current_time, relay_value, relay_end_time, next_temp_update,
                   next_relay_activation, next_second_update, end_maceration_time,
                   lcd, iot_log, remaining, iter, fired, tempStartedAt, tempLatency,
                   tempOutcome, lastRelayEvent, prevRelayEvent, relay_at_deadline>>
    /\ UNCHANGED <<due, startupVars, picoVars>>

Finish_RelayOff ==
    /\ pc = "finish"
    /\ lcd' = [BlankLcd EXCEPT !.text = "Zakonczono proces"]
    /\ relay_value' = 0
    /\ pc' = "done"
    /\ UNCHANGED <<now, current_time, relay_end_time, next_temp_update,
                   next_relay_activation, next_second_update, end_maceration_time,
                   iot_log, remaining, next_event_time, sleep_arg, iter, fired,
                   tempStartedAt, tempLatency, tempOutcome, lastRelayEvent,
                   prevRelayEvent, relay_at_deadline>>
    /\ UNCHANGED <<due, startupVars, picoVars>>

\* lines 172-173: clear the display and write the completion message
Finish ==
    /\ pc = "finish"
    /\ lcd' = [BlankLcd EXCEPT !.text = "Zakonczono proces"]
    /\ pc' = "done"
    /\ UNCHANGED <<now, current_time, relay_value, relay_end_time, next_temp_update,
                   next_relay_activation, next_second_update, end_maceration_time,
                   iot_log, remaining, next_event_time, sleep_arg, iter, fired,
                   tempStartedAt, tempLatency, tempOutcome, lastRelayEvent,
                   prevRelayEvent, relay_at_deadline>>
    /\ UNCHANGED <<due, startupVars, picoVars>>

\* lines 184-187: the handler reports the error over a new connection; the
\* report itself may fail, and either way the process ends.  The new
\* AzureIoTConnect loads the configuration again: when that cannot be
\* loaded its constructor raises and nothing is sent.
ExceptHandler ==
    /\ pc = "except"
    /\ IF config = "ok"
       THEN \E ok \in BOOLEAN : iot_log' = Append(iot_log, [msg |-> "error", ok |-> ok])
       ELSE UNCHANGED iot_log
    /\ pc' = "exited"
    /\ UNCHANGED <<now, current_time, relay_value, relay_end_time, next_temp_update,
                   next_relay_activation, next_second_update, end_maceration_time,
                   lcd, remaining, next_event_time, sleep_arg, iter, fired,
                   tempStartedAt, tempLatency, tempOutcome, lastRelayEvent,
                   prevRelayEvent, relay_at_deadline>>
    /\ UNCHANGED <<due, startupVars, picoVars>>

Next ==
    \/ RunStart
    \/ WhileTest
    \/ Snapshot
    \/ TempCheck
    \/ RelayCheck
    \/ DisplayCheck
    \/ Sleep
    \/ Finish
    \/ ExceptHandler

Spec == Init /\ [][Next]_vars

\* the process is scheduled: a statement that can run does run
FairSpec == Init /\ [][Next]_vars /\ WF_vars(Next)

-----------------------------------------------------------------------------
(* Start-up (lines 176-183): the process constructs the WineMacerator and  *)
(* then runs it.  The constructor connects to Azure IoT first, sets up the *)
(* peripherals second and the deadlines last.                              *)

\* What config.json can be: usable, absent, without the key
\* "IoTHubConnectionString", or with a string the client rejects.
ConfigFiles == {"ok", "missing_file", "missing_key", "bad_connection_string"}

\* the process before WineMacerator(config_file_path) is evaluated
MainInit ==
    /\ config \in ConfigFiles
    /\ components = FALSE
    /\ PicoOff
    /\ now = 0
    /\ pc = "main"
    /\ current_time = 0
    /\ relay_value = 0
    /\ relay_end_time = None
    /\ next_temp_update = 0
    /\ next_relay_activation = 0
    /\ next_second_update = 0
    /\ end_maceration_time = 0
    /\ lcd = BlankLcd
    /\ iot_log = << >>
    /\ remaining = 0
    /\ next_event_time = 0
    /\ sleep_arg = 0
    /\ Ghosts0

\* a constructor that sets the peripherals up before it connects
Construct_ComponentsFirst ==
    /\ pc = "main"
    /\ components' = TRUE
    /\ IF config = "ok"
       THEN /\ relay_end_time' = None
            /\ next_temp_update' = now
            /\ next_relay_activation' = now
            /\ next_second_update' = now
            /\ end_maceration_time' = now + MACERATION_DURATION
            /\ pc' = "run"
       ELSE /\ UNCHANGED <<relay_end_time, next_temp_update, next_relay_activation,
                           next_second_update, end_maceration_time>>
            /\ pc' = "except"
    /\ now' = now
    /\ UNCHANGED <<current_time, relay_value,
                   lcd, iot_log, remaining, next_event_time, sleep_arg, iter, fired,
                   tempStartedAt, tempLatency, tempOutcome, lastRelayEvent,
                   prevRelayEvent, relay_at_deadline, due, config, picoVars>>

\* WineMacerator.__init__ (lines 79-86): AzureIoTConnect(config_file_path)
\* (lines 14-49) raises when the file or the key is missing or the client
\* cannot be made, and the exception leaves the constructor before
\* initialize_components; otherwise the peripherals and then the deadlines
\* are set and main goes on to macerator.run()
Construct ==
    /\ pc = "main"
    /\ now' = now
    /\ IF config = "ok"
       THEN /\ components' = TRUE
            /\ relay_end_time' = None
            /\ next_temp_update' = now
            /\ next_relay_activation' = now
            /\ next_second_update' = now
            /\ end_maceration_time' = now + MACERATION_DURATION
            /\ pc' = "run"
       ELSE /\ UNCHANGED <<components, relay_end_time, next_temp_update,
                           next_relay_activation, next_second_update,
                           end_maceration_time>>
            /\ pc' = "except"
    /\ UNCHANGED <<current_time, relay_value,
                   lcd, iot_log, remaining, next_event_time, sleep_arg, iter, fired,
                   tempStartedAt, tempLatency, tempOutcome, lastRelayEvent,
                   prevRelayEvent, relay_at_deadline, due, config, picoVars>>

MainNext ==
    \/ Construct
    \/ Next

MainSpec == MainInit /\ [][MainNext]_vars

-----------------------------------------------------------------------------
(* The countdown formatter on its own: display_time_on_lcd applied to any  *)
(* countdown, whole or fractional seconds, overdue or not.                 *)

FmtInputs ==
    (0 - MaxOverdueSeconds * TicksPerSecond) .. (MaxRemainingSeconds * TicksPerSecond)

FmtInit ==
    /\ config = "ok"
    /\ components = TRUE
    /\ PicoOff
    /\ now = 0
    /\ pc = "fmt"
    /\ current_time = 0
    /\ relay_value \in {0, 1}
    /\ set_initial_times
    /\ lcd = BlankLcd
    /\ iot_log = << >>
    /\ remaining \in FmtInputs
    /\ next_event_time = 0
    /\ sleep_arg = 0
    /\ Ghosts0

FmtApply ==
    /\ pc = "fmt"
    /\ lcd' = [lcd EXCEPT !.row1 = display_time_on_lcd(remaining, relay_value)]
    /\ pc' = "fmt_done"
    /\ UNCHANGED <<now, current_time, relay_value, relay_end_time, next_temp_update,
                   next_relay_activation, next_second_update, end_maceration_time,
                   iot_log, remaining, next_event_time, sleep_arg, iter, fired,
                   tempStartedAt, tempLatency, tempOutcome, lastRelayEvent,
                   prevRelayEvent, relay_at_deadline>>
    /\ UNCHANGED <<due, startupVars, picoVars>>

FmtNext == FmtApply

FmtSpec == FmtInit /\ [][FmtNext]_vars

-----------------------------------------------------------------------------
(* Properties.                                                             *)

Crashed == pc \in {"except", "exited"}

Completion == "Zakonczono proces"

\* C1: a sensor read that raises does not stop the loop: after it the
\* process is still in the loop, on its way to the relay check, the display
\* check and the sleep.
C1_SensorFailureKeepsLoopRunning == tempOutcome = "sensor_error" => ~Crashed

\* C2: a telemetry send that raises is swallowed: after it the process is
\* still in the loop, and the failed message is the last wine_temp call
\* made for that update.
C2_SendFailureSwallowed ==
    tempOutcome = "send_error" =>
        /\ ~Crashed
        /\ \A i, j \in 1..Len(iot_log) :
              (i < j /\ iot_log[i].msg = "wine_temp" /\ ~iot_log[i].ok) =>
                  iot_log[j].msg # "wine_temp"

\* C3: relay transitions alternate strictly: relay.on() is called only when
\* the relay is off and the snapshot is at or past next_relay_activation,
\* relay.off() only when it is on and the snapshot is at or past
\* relay_end_time, at most one of them per iteration, and never the same
\* one twice in a row.
C3_RelayAlternates ==
    /\ lastRelayEvent.ev = "on" =>
          lastRelayEvent.pre = 0 /\ lastRelayEvent.snap >= lastRelayEvent.deadline
    /\ lastRelayEvent.ev = "off" =>
          lastRelayEvent.pre = 1 /\ lastRelayEvent.snap >= lastRelayEvent.deadline
    /\ prevRelayEvent.ev # "none" => lastRelayEvent.ev # prevRelayEvent.ev
    /\ ~({"relay_on", "relay_off"} \subseteq fired)
    /\ relay_value = IF lastRelayEvent.ev = "on" THEN 1 ELSE 0

C3_Witness == lastRelayEvent.ev = "on" /\ prevRelayEvent.ev = "off"

\* C4 as stated: every completed Active period lasts exactly RELAY_DURATION
\* and every completed Idle period exactly MIXTURE_INTERVAL, measured
\* between the relay.on() and relay.off() calls.
C4_ExactPeriods ==
    /\ (lastRelayEvent.ev = "off" /\ prevRelayEvent.ev = "on") =>
          lastRelayEvent.at - prevRelayEvent.at = RELAY_DURATION
    /\ (lastRelayEvent.ev = "on" /\ prevRelayEvent.ev = "off") =>
          lastRelayEvent.at - prevRelayEvent.at = MIXTURE_INTERVAL

\* C4 amended: every completed Active period lasts at least RELAY_DURATION
\* and every completed Idle period at least MIXTURE_INTERVAL.
C4_PeriodsAtLeast ==
    /\ (lastRelayEvent.ev = "off" /\ prevRelayEvent.ev = "on") =>
          lastRelayEvent.at - prevRelayEvent.at >= RELAY_DURATION
    /\ (lastRelayEvent.ev = "on" /\ prevRelayEvent.ev = "off") =>
          lastRelayEvent.at - prevRelayEvent.at >= MIXTURE_INTERVAL

C4_Witness ==
    /\ lastRelayEvent.ev = "off"
    /\ prevRelayEvent.ev = "on"
    /\ lastRelayEvent.at - prevRelayEvent.at > RELAY_DURATION

\* C5: after update_temperature, next_temp_update is the time the action
\* started plus TEMP_UPDATE_INTERVAL, whatever the read took and however it
\* ended.
C5_RescheduledFromStart ==
    tempOutcome # "none" => next_temp_update = tempStartedAt + TEMP_UPDATE_INTERVAL

C5_Witness ==
    /\ tempOutcome = "sensor_error"
    /\ tempLatency > 0
    /\ next_temp_update = tempStartedAt + TEMP_UPDATE_INTERVAL

\* C6: at the end of an iteration next_event_time is the minimum of
\* next_temp_update, next_second_update and the relay deadline of the
\* current relay state, and the sleep argument is max(0, next_event_time -
\* current_time), so never negative.
C6_NextWakeIsMin ==
    (pc = "while" /\ iter >= 1) =>
        LET relayDeadline == IF relay_value = 1 THEN TimeOf(relay_end_time)
                                                ELSE next_relay_activation
            deadlines == {next_temp_update, next_second_update, relayDeadline}
        IN  /\ next_event_time \in deadlines
            /\ \A d \in deadlines : next_event_time <= d
            /\ sleep_arg >= 0
            /\ sleep_arg = IF next_event_time > current_time
                           THEN next_event_time - current_time ELSE 0

C6_Witness ==
    /\ pc = "while"
    /\ iter >= 1
    /\ relay_value = 1
    /\ next_event_time = TimeOf(relay_end_time)
    /\ next_event_time < next_second_update
    /\ next_event_time < next_temp_update

\* C7: the first iteration executes the temperature update, the relay
\* activation and the display refresh before it sleeps or ends.
C7_FirstIterationFiresAll ==
    (iter = 1 /\ (pc = "sleep" \/ Crashed)) => fired = {"temp", "relay_on", "display"}

\* C8: once the clock has reached end_maceration_time, the loop eventually
\* stops and the completion message is on the display.
C8_LoopTerminates ==
    (now >= end_maceration_time) ~> (pc = "done" /\ lcd.text = Completion)

\* C9: when the loop ends at the run deadline with the relay on, the
\* completion message is rendered, the process stops, and the relay is
\* still on: no relay.off() is issued.
C9_RelayLeftOnAtDeadline ==
    /\ pc \in {"finish", "done"} => relay_value = relay_at_deadline
    /\ pc = "done" => lcd.text = Completion /\ ~ENABLED Next

C9_Witness == pc = "done" /\ relay_at_deadline = 1 /\ relay_value = 1

TwoDigits(n) == IF n < 10 THEN "0" \o ToString(n) ELSE ToString(n)

\* C10: for a countdown of r whole seconds (after flooring), mixing renders
\* (r div 60):(r mod 60, two digits) and idle renders
\* (r div 3600):((r mod 3600) div 60, two digits):(r mod 60, two digits);
\* 125 renders 2:05 and 3725 renders 1:02:05.
C10_CountdownFormat ==
    (pc = "fmt_done" /\ remaining >= 0) =>
        LET r == remaining \div TicksPerSecond
        IN  /\ relay_value = 1 =>
                 lcd.row1 = ljust("Blend: " \o ToString(r \div 60) \o ":"
                                   \o TwoDigits(r % 60), LCD_COLS)
            /\ relay_value = 0 =>
                 lcd.row1 = ljust("Next: " \o ToString(r \div 3600) \o ":"
                                   \o TwoDigits((r % 3600) \div 60) \o ":"
                                   \o TwoDigits(r % 60), LCD_COLS)
            /\ (relay_value = 1 /\ r = 125) => lcd.row1 = "Blend: 2:05     "
            /\ (relay_value = 0 /\ r = 3725) => lcd.row1 = "Next: 1:02:05   "

C10_Witness ==
    /\ pc = "fmt_done"
    /\ relay_value = 0
    /\ remaining = 3725 * TicksPerSecond + 1
    /\ lcd.row1 = "Next: 1:02:05   "


-----------------------------------------------------------------------------
(* The timer-callback variant (maceration-driver-raspberry-pico.py).  Two  *)
(* periodic timers call update_display every second and                    *)
(* measure_temperature every minute; the main loop only counts the days.   *)
(* A callback runs to completion before anything else does.  The timers    *)
(* are never stopped (there is no deinit), so the callbacks go on after    *)
(* the main loop has left.                                                 *)

\* times of day the RTC may give at line 27
StartTimes == {<<23, 59, 58>>, <<0, 59, 59>>, <<10, 20, 30>>}

PicoInit ==
    /\ config = "ok"
    /\ components = FALSE
    /\ LoopOff
    /\ \E t \in StartTimes : PicoGlobals("init", t, 1)

\* lines 76-87
increment_time(t) ==
    IF t[3] + 1 < 60 THEN <<t[1], t[2], t[3] + 1>>
    ELSE IF t[2] + 1 < 60 THEN <<t[1], t[2] + 1, 0>>
    ELSE IF t[1] + 1 < 24 THEN <<t[1] + 1, 0, 0>>
    ELSE <<0, 0, 0>>

\* lines 52-57
format_seconds_to_hms(n) ==
    Fmt02d(n \div 3600) \o ":" \o Fmt02d((n % 3600) \div 60) \o ":" \o Fmt02d(n % 60)

\* line 102
FormatClock(t) == Fmt02d(t[1]) \o ":" \o Fmt02d(t[2]) \o ":" \o Fmt02d(t[3])

\* the countdown a relay state starts with (lines 65 and 73)
Interval(active) == IF active THEN RELAY_DURATION_S ELSE MIXTURE_INTERVAL_S

\* a test that lets the countdown pass 0
CountdownExpired_Late(n) == n < 0

\* line 96
CountdownExpired(n) == n <= 0

\* the timers have been started (lines 149-152)
TimersRunning == main_pc \in {"test", "sleep", "read_rtc", "done"}

\* lines 149-152
StartTimers ==
    /\ main_pc = "init"
    /\ main_pc' = "test"
    /\ UNCHANGED <<relay_active, relay_pin, relay_next_activation_s,
                   current_temperature, clock_hms, day, days_elapsed, rtc_day,
                   display, display_ticks, measure_ticks, run_ticks, ended_run>>
    /\ UNCHANGED <<loopVars, startupVars>>

\* update_display (lines 90-115), the callback of display_timer, with the
\* activate_relay / deactivate_relay (lines 60-73) it calls
update_display ==
    /\ TimersRunning
    /\ display_ticks < MaxDisplayTicks
    /\ clock_hms' = increment_time(clock_hms)
    /\ IF CountdownExpired(relay_next_activation_s - 1)
       THEN /\ relay_pin' = IF relay_active THEN 0 ELSE 1
            /\ relay_active' = ~relay_active
            /\ relay_next_activation_s' = Interval(~relay_active)
            /\ run_ticks' = 0
            /\ ended_run' = [active |-> relay_active, len |-> run_ticks + 1,
                             count |-> Min2(ended_run.count + 1, 2)]
       ELSE /\ relay_next_activation_s' = relay_next_activation_s - 1
            /\ run_ticks' = run_ticks + 1
            /\ UNCHANGED <<relay_pin, relay_active, ended_run>>
    /\ display' = [kind |-> "status",
                   temperature |-> current_temperature,
                   label |-> IF relay_active' THEN "Mixing:" ELSE "Next:",
                   countdown |-> format_seconds_to_hms(relay_next_activation_s'),
                   clock |-> FormatClock(clock_hms')]
    /\ display_ticks' = display_ticks + 1
    /\ UNCHANGED <<main_pc, current_temperature, day, days_elapsed, rtc_day,
                   measure_ticks>>
    /\ UNCHANGED <<loopVars, startupVars>>

\* measure_temperature (lines 118-135), the callback of temp_measure_timer
measure_temperature ==
    /\ TimersRunning
    /\ measure_ticks < MaxMeasureTicks
    /\ \E outcome \in {"ok", "sensor_error", "no_sensor"}, t \in Temperatures :
           CASE outcome = "ok" ->
                    /\ current_temperature' = "Wine T = " \o ToString(t) \o ".0 C"
                    /\ UNCHANGED display
             [] outcome = "sensor_error" ->
                    /\ current_temperature' = "Sensor Error"
                    /\ display' = [kind |-> "error", temperature |-> "",
                                   label |-> "Sensor Error", countdown |-> "",
                                   clock |-> ""]
             [] outcome = "no_sensor" ->
                    /\ current_temperature' = "No sensor"
                    /\ UNCHANGED display
    /\ measure_ticks' = measure_ticks + 1
    /\ UNCHANGED <<main_pc, relay_active, relay_pin, relay_next_activation_s,
                   clock_hms, day, days_elapsed, rtc_day, display_ticks, run_ticks,
                   ended_run>>
    /\ UNCHANGED <<loopVars, startupVars>>

\* lines 154-160
MainTest ==
    /\ main_pc = "test"
    /\ IF days_elapsed > PICO_MACERATION_DURATION_DAYS
       THEN /\ display' = [kind |-> "completed", temperature |-> "",
                           label |-> "Maceration Completed!", countdown |-> "",
                           clock |-> ""]
            /\ main_pc' = "done"
       ELSE /\ main_pc' = "sleep"
            /\ UNCHANGED display
    /\ UNCHANGED <<relay_active, relay_pin, relay_next_activation_s,
                   current_temperature, clock_hms, day, days_elapsed, rtc_day,
                   display_ticks, measure_ticks, run_ticks, ended_run>>
    /\ UNCHANGED <<loopVars, startupVars>>

\* line 161
MainSleep ==
    /\ main_pc = "sleep"
    /\ main_pc' = "read_rtc"
    /\ UNCHANGED <<relay_active, relay_pin, relay_next_activation_s,
                   current_temperature, clock_hms, day, days_elapsed, rtc_day,
                   display, display_ticks, measure_ticks, run_ticks, ended_run>>
    /\ UNCHANGED <<loopVars, startupVars>>

\* lines 163-166
MainReadRtc ==
    /\ main_pc = "read_rtc"
    /\ IF rtc_day # day
       THEN day' = rtc_day /\ days_elapsed' = days_elapsed + 1
       ELSE UNCHANGED <<day, days_elapsed>>
    /\ main_pc' = "test"
    /\ UNCHANGED <<relay_active, relay_pin, relay_next_activation_s,
                   current_temperature, clock_hms, rtc_day, display, display_ticks,
                   measure_ticks, run_ticks, ended_run>>
    /\ UNCHANGED <<loopVars, startupVars>>

\* the RTC passes midnight
RtcMidnight ==
    /\ main_pc \in {"init", "test", "sleep", "read_rtc"}
    /\ rtc_day < 1 + MaxRtcDays
    /\ rtc_day' = rtc_day + 1
    /\ UNCHANGED <<main_pc, relay_active, relay_pin, relay_next_activation_s,
                   current_temperature, clock_hms, day, days_elapsed, display,
                   display_ticks, measure_ticks, run_ticks, ended_run>>
    /\ UNCHANGED <<loopVars, startupVars>>

PicoNext ==
    \/ StartTimers
    \/ update_display
    \/ measure_temperature
    \/ MainTest
    \/ MainSleep
    \/ MainReadRtc
    \/ RtcMidnight

PicoSpec == PicoInit /\ [][PicoNext]_vars

\* either variant
VariantsInit == Init \/ PicoInit

VariantsNext == Next \/ PicoNext

VariantsSpec == VariantsInit /\ [][VariantsNext]_vars

-----------------------------------------------------------------------------
\* C11: when config.json is missing or lacks the connection-string key,
\* start-up fails before any peripheral is set up, the control loop never
\* starts and the relay is never switched on.
C11_MissingConfigIsFatal ==
    config \in {"missing_file", "missing_key"} =>
        /\ ~components
        /\ pc \in {"main", "except", "exited"}
        /\ iter = 0
        /\ fired = {}
        /\ relay_value = 0
        /\ lastRelayEvent.ev = "none"

C11_Witness ==
    /\ config = "missing_key"
    /\ pc = "exited"
    /\ ~components
    /\ iot_log = << >>

-----------------------------------------------------------------------------
\* an iteration of the loop is under way (after the snapshot, before the
\* sleep returns)
InIteration == pc \in {"temp", "relay", "display", "sleep"}

\* C12: the run-deadline check and the three due-ness checks of an
\* iteration are evaluated against the iteration's one clock reading: an
\* iteration runs only if its snapshot is before the run deadline, and only
\* events due at the snapshot are executed.
C12_SingleSnapshot ==
    InIteration =>
        /\ current_time < end_maceration_time
        /\ fired \subseteq due

-----------------------------------------------------------------------------
\* C13: an activation sets relayEndTime to the iteration's snapshot +
\* RELAY_DURATION and a deactivation sets nextActivation to the iteration's
\* snapshot + MIXTURE_INTERVAL.
C13_DeadlinesFromSnapshot ==
    /\ (lastRelayEvent.ev = "on" /\ relay_value = 1) =>
            relay_end_time = Some(lastRelayEvent.snap + RELAY_DURATION)
    /\ (lastRelayEvent.ev = "off" /\ relay_value = 0) =>
            next_relay_activation = lastRelayEvent.snap + MIXTURE_INTERVAL

-----------------------------------------------------------------------------
\* C14: in every iteration the run deadline does not end, each event that
\* was due at the snapshot is executed in that iteration, once, and no
\* other: when the iteration is over the executed events are the due ones.
C14_NoDueActionMissed ==
    (iter >= 1 /\ (pc \in {"sleep", "while", "snapshot", "finish", "done"} \/ Crashed)) =>
        fired = due

-----------------------------------------------------------------------------
\* C16: the relay deadline selected by the relay state is defined: while
\* the relay is Active relay_end_time holds the time the most recent
\* activation set, never None; while it is Idle next_relay_activation is the
\* time set at start or by the most recent deactivation; relay_end_time is
\* None only before the first activation.
C16_LiveDeadlineDefined ==
    /\ relay_value = 1 =>
            /\ relay_end_time # None
            /\ lastRelayEvent.ev = "on"
            /\ TimeOf(relay_end_time) = lastRelayEvent.at + RELAY_DURATION
            /\ LiveRelayDeadline = TimeOf(relay_end_time)
    /\ relay_value = 0 =>
            /\ lastRelayEvent.ev \in {"none", "off"}
            /\ lastRelayEvent.ev = "none" => next_relay_activation = 0
            /\ lastRelayEvent.ev = "off" =>
                    next_relay_activation = lastRelayEvent.at + MIXTURE_INTERVAL
            /\ LiveRelayDeadline = next_relay_activation
    /\ relay_end_time = None <=> lastRelayEvent.ev = "none"

C16_Witness ==
    /\ relay_value = 1
    /\ pc = "sleep"
    /\ "display" \in fired
    /\ prevRelayEvent.ev = "off"
    /\ relay_end_time # None

-----------------------------------------------------------------------------
\* the sleep of an iteration has returned
AfterSleep == iter >= 1 /\ pc \in {"while", "snapshot", "finish"}

\* how long the actions of the iteration took
IterLatency == IF "temp" \in fired THEN tempLatency ELSE 0

\* how much longer than asked the sleep of the iteration lasted
SleepOvershoot == now - current_time - IterLatency - sleep_arg

\* C18 as claimed: the sleep asked for is at most one second, and when the
\* sleep returns the live relay deadline and the run deadline are at most
\* one second plus the iteration's action latency in the past.
C18_NoticedWithinSecondPlusLatency ==
    AfterSleep =>
        /\ sleep_arg <= SECOND
        /\ now - LiveRelayDeadline <= SECOND + IterLatency
        /\ now - end_maceration_time <= SECOND + IterLatency

\* C18 as amended: the sleep asked for is at most one second because the
\* next display tick is at most one second after the snapshot; when the
\* sleep returns the live relay deadline and the run deadline are in the
\* past by at most one second plus the action latency plus the overshoot
\* of the sleep plus the gap between the loop test's clock read and the
\* snapshot.
C18_NoticedWithinSecondPlusDelays ==
    /\ pc = "sleep" => next_second_update <= current_time + SECOND
    /\ AfterSleep =>
            /\ sleep_arg <= SECOND
            /\ SleepOvershoot \in 0..MaxOversleep
            /\ now - LiveRelayDeadline <= SECOND + IterLatency + SleepOvershoot
            /\ now - end_maceration_time
                    < SECOND + IterLatency + SleepOvershoot + MaxJitter

C18_Witness ==
    /\ pc = "finish"
    /\ current_time < end_maceration_time
    /\ sleep_arg = SECOND
    /\ SleepOvershoot >= 1
    /\ now - end_maceration_time > SECOND + IterLatency

-----------------------------------------------------------------------------
\* C19: whenever the display refresh renders a countdown, the remaining
\* time it formats is not negative.
C19_RemainingNonNegative ==
    (pc = "sleep" /\ "display" \in fired) => remaining >= 0

-----------------------------------------------------------------------------
\* C15: in both variants the display-refresh action and the
\* temperature-update action leave the relay output and the relay state
\* unchanged.
C15_RelayOnlyByScheduler ==
    [][/\ pc \in {"temp", "display"} =>
            /\ relay_value' = relay_value
            /\ lastRelayEvent' = lastRelayEvent
       /\ (display_ticks' # display_ticks \/ measure_ticks' # measure_ticks) =>
            /\ relay_pin' = relay_pin
            /\ relay_active' = relay_active]_vars

-----------------------------------------------------------------------------
\* C17: in both variants, once the completion message has been rendered no
\* temperature-update, relay-transition or display-refresh action is
\* executed.
C17_CompletionIsTerminal ==
    [][/\ pc = "done" => UNCHANGED <<lcd, relay_value, fired, iot_log>>
       /\ main_pc = "done" =>
            UNCHANGED <<display, relay_pin, relay_active, current_temperature,
                        display_ticks, measure_ticks>>]_vars

-----------------------------------------------------------------------------
\* C20: in the timer-callback variant the countdown is between 1 and the
\* full interval of the current relay state, the pin level equals
\* relay_active, the relay toggles exactly on the tick where the countdown
\* reaches 0, so that every Active run lasts RELAY_DURATION_S ticks and every
\* Idle run MIXTURE_INTERVAL_S ticks, and the first run is Idle.
C20_CountdownAndRuns ==
    main_pc # "off" =>
        /\ relay_next_activation_s \in 1..Interval(relay_active)
        /\ relay_pin = (IF relay_active THEN 1 ELSE 0)
        /\ run_ticks + relay_next_activation_s = Interval(relay_active)
        /\ ended_run.count = 0 => ~relay_active /\ run_ticks = display_ticks
        /\ ended_run.count >= 1 =>
                /\ ended_run.len = Interval(ended_run.active)
                /\ ended_run.active # relay_active
        /\ ended_run.count = 1 => ~ended_run.active

C20_Witness ==
    /\ ended_run.count = 2
    /\ ended_run.active
    /\ ended_run.len = RELAY_DURATION_S
    /\ ~relay_active
    /\ relay_pin = 0
    /\ relay_next_activation_s = MIXTURE_INTERVAL_S - 1

====
